---- MODULE Spec2Model ----
(***************************************************************************)
(* Model of zaphelper's Writer (src/writer.go): an io.WriteCloser that     *)
(* lazily opens a log file, appends to it under a mutex, and reopens it    *)
(* on Rotate.  Goroutines call Write, Close and Rotate concurrently; the   *)
(* operating system's calls (stat, mkdir, open, write, close) succeed or   *)
(* fail nondeterministically.                                              *)
(***************************************************************************)
EXTENDS Integers, Sequences, FiniteSets, TLC

\* ---------------------------------------------------------------- bounds
NThreads == 2        \* goroutines sharing the one Writer
MaxOps == 3          \* calls of Write/Close/Rotate issued in one run
MaxLen == 2          \* longest payload handed to Write
MaxFaults == 2       \* OS calls that fail in one run

Threads == 1..NThreads
\* What a file left at the target path by an earlier run may hold: nothing,
\* or a byte no payload has.
OldContents == {<< >>, <<0>>}

\* The payloads are the prefixes of 1, 2, ..., MaxLen: the empty one, and
\* payloads that tell an exchange of order from an interleaving of bytes.
Payloads == {[i \in 1..m |-> i] : m \in 0..MaxLen}

\* ------------------------------------------------------------ path names
\* A path is a sequence of components; a component is a sequence of name
\* pieces, so that "myapp" + "-zap.log" is a real concatenation.
TempDir == << <<"tmp">> >>
Args0 == << <<"usr">>, <<"bin">>, <<"myapp">> >>
ExplicitPath == << <<"var">>, <<"log">>, <<"app">>, <<"out.log">> >>
Filenames == {<< >>, ExplicitPath}

Base(p) == p[Len(p)]
Dir(p) == SubSeq(p, 1, Len(p) - 1)
Join(d, name) == d \o <<name>>
Prefixes(p) == {SubSeq(p, 1, k) : k \in 0..Len(p)}

\* ---------------------------------------------------------------- errors
\* An error is the chain of its messages, outermost first; nil is empty.
nil == << >>
Wrap(err, msg) == <<msg>> \o err

VARIABLES
    Filename,   \* Writer.Filename, set at construction
    file,       \* Writer.file: 0 is nil, else the handle
    mu,         \* Writer.mu: TRUE while locked
    dirs,       \* OS: the directories that exist
    files,      \* OS: path -> content of the regular files that exist
    fds,        \* OS: every handle ever opened, [path, open]
    pc,         \* per goroutine: where it is in its call
    arg,        \* per goroutine: the p of its Write
    wh,         \* per goroutine: the *os.File its file.Write was called on
    ret,        \* per goroutine: [n, err] its call returns
    tr,         \* per goroutine: the OS calls its call has made, in order
    pre,        \* per goroutine: the state it found when it took the lock
    last,       \* what the call that returned last was, and returned
    faults,     \* OS calls that have failed so far
    nops,       \* calls issued so far
    lockOrder,  \* payloads of the Writes, in the order they took the lock
    initContent \* content found at the target path at construction

vars == <<Filename, file, mu, dirs, files, fds, pc, arg, wh, ret, tr, pre,
          last, faults, nops, lockOrder, initContent>>

\* ------------------------------------------------------- path resolution
\* A filename that ignores the configured Filename.
filename_AlwaysDefault == Join(TempDir, Base(Args0) \o <<"-zap.log">>)

\* func (w *Writer) filename() string
filename == IF Filename # << >> THEN Filename
            ELSE Join(TempDir, Base(Args0) \o <<"-zap.log">>)

dir == Dir(filename)

Content == IF filename \in DOMAIN files THEN files[filename] ELSE << >>

\* ------------------------------------------------------------- OS calls
\* The part of the state one call of a Writer method reads and changes.
World(t) == [file |-> file, dirs |-> dirs, files |-> files, fds |-> fds,
             faults |-> faults, tr |-> tr[t]]

\* The outcomes the OS may give to the calls of one step.
Outcomes == [stat : BOOLEAN, mkdir : BOOLEAN, create : BOOLEAN,
             append : BOOLEAN, close : BOOLEAN]

\* The outcomes of the calls a close makes, and of those an open makes.
CloseOutcomes == {o \in Outcomes : o.stat /\ o.mkdir /\ o.create /\ o.append}
OpenOutcomes == {o \in Outcomes : o.close}

\* One OS call, as the trace of a Writer call notes it.
Did(call, ok) == [call |-> call, ok |-> ok]

\* A call that fails: because the OS makes it fail (ok is FALSE), which
\* counts as a fault, or because of what it is asked to do.
Fault(w, call, ok) ==
    [w EXCEPT !.tr = Append(@, Did(call, FALSE)),
              !.faults = IF ok THEN @ ELSE @ + 1]

NewHandle(w, call) ==
    [w EXCEPT !.tr = Append(@, Did(call, TRUE)),
              !.fds = Append(@, [path |-> filename, open |-> TRUE]),
              !.file = Len(w.fds) + 1]

\* os.MkdirAll(w.dir(), 0744)
MkdirAll(w, ok) ==
    IF ok THEN [w |-> [w EXCEPT !.tr = Append(@, Did("mkdir", TRUE)),
                                !.dirs = @ \cup Prefixes(dir)],
                err |-> nil]
    ELSE [w |-> Fault(w, "mkdir", ok), err |-> <<"mkdir failed">>]

\* An open that truncates the file (O_TRUNC).
OpenCreate_Truncating(w, ok) ==
    IF ok /\ dir \in w.dirs
    THEN [w |-> [NewHandle(w, "create") EXCEPT
                   !.files = (filename :> << >>) @@ w.files],
          err |-> nil]
    ELSE [w |-> Fault(w, "create", ok), err |-> <<"open failed">>]

\* os.OpenFile(name, O_CREATE|O_WRONLY|O_APPEND, 0644): creates the file
\* when it is missing and keeps its content when it is there.
OpenCreate(w, ok) ==
    IF ok /\ dir \in w.dirs
    THEN [w |-> [NewHandle(w, "create") EXCEPT
                   !.files = IF filename \in DOMAIN w.files THEN w.files
                             ELSE (filename :> << >>) @@ w.files],
          err |-> nil]
    ELSE [w |-> Fault(w, "create", ok), err |-> <<"open failed">>]

\* os.OpenFile(filename, O_APPEND|O_WRONLY, 0644)
OpenAppend(w, ok) ==
    IF ok /\ filename \in DOMAIN w.files
    THEN [w |-> NewHandle(w, "append"), err |-> nil]
    ELSE [w |-> Fault(w, "append", ok), err |-> <<"open failed">>]

\* (*os.File).Close: the descriptor is released whether or not an error is
\* reported; closing a closed file is an error.
FileClose(w, ok) ==
    LET h == w.file
        good == ok /\ h \in DOMAIN w.fds /\ w.fds[h].open
        w1 == [w EXCEPT !.tr = Append(@, Did("close", good)),
                        !.fds = IF h \in DOMAIN w.fds
                                THEN [@ EXCEPT ![h].open = FALSE] ELSE @]
    IN IF good THEN [w |-> w1, err |-> nil]
       ELSE [w |-> [w1 EXCEPT !.faults = IF ok THEN @ ELSE @ + 1],
             err |-> <<"close failed">>]

\* ------------------------------------------------- Writer's own methods
\* A close that keeps the handle when the OS reports an error.
close_KeepsOnError(w, o) ==
    IF w.file = 0 THEN [w |-> w, err |-> nil]
    ELSE LET r == FileClose(w, o.close)
         IN [w |-> IF r.err # nil THEN r.w ELSE [r.w EXCEPT !.file = 0],
             err |-> r.err]

\* A close that forgets the handle without closing it.
close_Forgetful(w, o) == [w |-> [w EXCEPT !.file = 0], err |-> nil]

\* func (w *Writer) close() error
close(w, o) ==
    IF w.file = 0 THEN [w |-> w, err |-> nil]
    ELSE LET r == FileClose(w, o.close)
         IN [w |-> [r.w EXCEPT !.file = 0], err |-> r.err]

\* An openNew that creates the file without making its directory.
openNew_NoMkdir(w, o) ==
    LET f == OpenCreate(w, o.create)
    IN IF f.err # nil
       THEN [w |-> f.w, err |-> Wrap(f.err, "can't open new logfile")]
       ELSE [w |-> f.w, err |-> nil]

\* func (w *Writer) openNew() error
openNew(w, o) ==
    LET m == MkdirAll(w, o.mkdir)
    IN IF m.err # nil
       THEN [w |-> m.w,
             err |-> Wrap(m.err, "can't make directories for new logfile")]
       ELSE LET f == OpenCreate(m.w, o.create)
            IN IF f.err # nil
               THEN [w |-> f.w,
                     err |-> Wrap(f.err, "can't open new logfile")]
               ELSE [w |-> f.w, err |-> nil]

\* An open that gives up when the existing file cannot be opened.
openExistingOrNew_NoFallback(w, o) ==
    LET s == [w EXCEPT !.tr = Append(@, Did("stat", o.stat))]
    IN IF filename \notin DOMAIN w.files /\ o.stat
       THEN openNew(s, o)
       ELSE IF ~o.stat
       THEN [w |-> [s EXCEPT !.faults = @ + 1],
             err |-> Wrap(<<"stat failed">>, "error getting log file info")]
       ELSE LET f == OpenAppend(s, o.append)
            IN IF f.err # nil
               THEN [w |-> f.w, err |-> Wrap(f.err, "can't open old logfile")]
               ELSE [w |-> f.w, err |-> nil]

\* An open that does not look for the file and always goes to openNew.
openExistingOrNew_NoStat(w, o) == openNew(w, o)

\* func (w *Writer) openExistingOrNew(writeLen int) error
openExistingOrNew(w, o) ==
    LET s == [w EXCEPT !.tr = Append(@, Did("stat", o.stat))]
    IN IF filename \notin DOMAIN w.files /\ o.stat
       THEN openNew(s, o)                          \* os.IsNotExist(err)
       ELSE IF ~o.stat
       THEN [w |-> [s EXCEPT !.faults = @ + 1],
             err |-> Wrap(<<"stat failed">>, "error getting log file info")]
       ELSE LET f == OpenAppend(s, o.append)
            IN IF f.err # nil
               THEN openNew(f.w, o)
               ELSE [w |-> f.w, err |-> nil]

\* A rotate that goes on to open the new file when the close failed.
rotateClose_ErrIgnored(w, o) == [w |-> close(w, o).w, err |-> nil]

\* A rotate that opens the new file without closing the old one.
rotateClose_Skipped(w, o) == [w |-> w, err |-> nil]

\* func (w *Writer) rotate() error, its two halves
rotateClose(w, o) ==
    LET r == close(w, o)
    IN [w |-> r.w,
        err |-> IF r.err # nil THEN Wrap(r.err, "close old file failed.")
                ELSE nil]

\* A rotate that returns nil whatever the open did.
rotateOpen_ErrSwallowed(w, o) == [w |-> openNew(w, o).w, err |-> nil]

rotateOpen(w, o) ==
    LET r == openNew(w, o)
    IN [w |-> r.w,
        err |-> IF r.err # nil THEN Wrap(r.err, "open new file failed.")
                ELSE nil]

\* A Write that opens the file on every call.
NeedsOpen_Always(f) == TRUE

\* if w.file == nil, in Write
NeedsOpen(f) == f = 0

\* A Write that reports no bytes when the write failed.
WriteReturns_ZeroOnError(n, err) == [n |-> IF err # nil THEN 0 ELSE n, err |-> err]

\* n, err = w.file.Write(p); return n, err
WriteReturns(n, err) == [n |-> n, err |-> err]

\* ------------------------------------------------------------ the mutex
\* A mutex that lets every caller in.
MuFree_Open == TRUE

\* w.mu.Lock() returns only when the mutex is free
MuFree == mu = FALSE

\* An unlock that is skipped when the call returns an error.
MuAfterUnlock_HeldOnError(err) == err # nil

\* defer w.mu.Unlock(): the mutex after a call that returns err
MuAfterUnlock(err) == FALSE

NoCall == [op |-> "none", n |-> 0, err |-> nil]

Snapshot == [file |-> file, dirs |-> dirs, files |-> files, fds |-> fds,
             faults |-> faults, last |-> last]

NoSnapshot == [file |-> 0, dirs |-> {}, files |-> << >>, fds |-> << >>,
               faults |-> 0, last |-> NoCall]

\* Assign the world a method left behind.
Commit(t, w) ==
    /\ file' = w.file
    /\ dirs' = w.dirs
    /\ files' = w.files
    /\ fds' = w.fds
    /\ faults' = w.faults
    /\ tr' = [tr EXCEPT ![t] = w.tr]

\* -------------------------------------------------------------- calling
Call(t, p, to) ==
    /\ pc[t] = "idle"
    /\ nops < MaxOps
    /\ pc' = [pc EXCEPT ![t] = to]
    /\ arg' = [arg EXCEPT ![t] = p]
    /\ nops' = nops + 1
    /\ UNCHANGED <<Filename, file, mu, dirs, files, fds, wh, ret, tr, pre,
                   last, faults, lockOrder, initContent>>

Lock(t, from, to) ==
    /\ pc[t] = from
    /\ MuFree
    /\ mu' = TRUE
    /\ pc' = [pc EXCEPT ![t] = to]
    /\ pre' = [pre EXCEPT ![t] = Snapshot]
    /\ UNCHANGED <<Filename, file, dirs, files, fds, arg, wh, ret, tr, last,
                   faults, nops, initContent>>

\* the deferred w.mu.Unlock(), then the return: the call's locals are gone
Unlock(t, op, from) ==
    /\ pc[t] = from
    /\ mu' = MuAfterUnlock(ret[t].err)
    /\ last' = [op |-> op, n |-> ret[t].n, err |-> ret[t].err]
    /\ pc' = [pc EXCEPT ![t] = "idle"]
    /\ arg' = [arg EXCEPT ![t] = << >>]
    /\ wh' = [wh EXCEPT ![t] = 0]
    /\ ret' = [ret EXCEPT ![t] = [n |-> 0, err |-> nil]]
    /\ tr' = [tr EXCEPT ![t] = << >>]
    /\ pre' = [pre EXCEPT ![t] = NoSnapshot]
    /\ UNCHANGED <<Filename, file, dirs, files, fds, faults, nops,
                   lockOrder, initContent>>

\* ---------------------------------------------------------------- Write
WriteCall(t) == \E p \in Payloads : Call(t, p, "W_lock")

WriteLock(t) == Lock(t, "W_lock", "W_open") /\ UNCHANGED lockOrder

\* The same step, noting the order in which the Writes take the lock.
WriteLockNoted(t) ==
    Lock(t, "W_lock", "W_open") /\ lockOrder' = Append(lockOrder, arg[t])

\* if w.file == nil { if err = w.openExistingOrNew(len(p)); ... return 0, err }
WriteOpen(t) ==
    /\ pc[t] = "W_open"
    /\ IF ~NeedsOpen(file)
       THEN /\ pc' = [pc EXCEPT ![t] = "W_write"]
            /\ wh' = [wh EXCEPT ![t] = file]
            /\ UNCHANGED <<file, dirs, files, fds, faults, tr, ret>>
       ELSE \E o \in OpenOutcomes :
              LET r == openExistingOrNew(World(t), o)
              IN /\ r.w.faults <= MaxFaults
                 /\ Commit(t, r.w)
                 /\ IF r.err # nil
                    THEN /\ ret' = [ret EXCEPT ![t] = [n |-> 0, err |-> r.err]]
                         /\ pc' = [pc EXCEPT ![t] = "W_ret"]
                         /\ wh' = wh
                    ELSE /\ ret' = ret
                         /\ pc' = [pc EXCEPT ![t] = "W_write"]
                         /\ wh' = [wh EXCEPT ![t] = r.w.file]
    /\ UNCHANGED <<Filename, mu, arg, pre, last, nops, lockOrder, initContent>>

\* n, err = w.file.Write(p): the file's Write hands p to the OS piece by
\* piece until all of it is written or a piece fails; the trace notes the
\* call when it returns.
WriteFile(t) ==
    /\ pc[t] = "W_write"
    /\ LET h == wh[t]
           n == ret[t].n
           usable == h \in DOMAIN fds /\ fds[h].open
           done(ok) == [tr EXCEPT ![t] = Append(@, Did("write", ok))]
       IN \E ok \in BOOLEAN :
            IF ok /\ usable
            THEN /\ faults' = faults
                 /\ files' = IF n < Len(arg[t])
                             THEN [files EXCEPT ![fds[h].path] =
                                                Append(@, arg[t][n + 1])]
                             ELSE files
                 /\ IF n + 1 >= Len(arg[t])
                    THEN /\ pc' = [pc EXCEPT ![t] = "W_ret"]
                         /\ tr' = done(TRUE)
                         /\ ret' = [ret EXCEPT ![t] =
                                      WriteReturns(Len(arg[t]), nil)]
                    ELSE /\ pc' = pc
                         /\ tr' = tr
                         /\ ret' = [ret EXCEPT ![t].n = n + 1]
            ELSE /\ ok => ~usable
                 /\ ~ok => faults < MaxFaults
                 /\ faults' = IF ok THEN faults ELSE faults + 1
                 /\ files' = files
                 /\ ret' = [ret EXCEPT ![t] =
                              WriteReturns(n, <<"write failed">>)]
                 /\ pc' = [pc EXCEPT ![t] = "W_ret"]
                 /\ tr' = done(FALSE)
    /\ UNCHANGED <<Filename, file, mu, dirs, fds, arg, wh, pre, last, nops,
                   lockOrder, initContent>>

WriteReturn(t) == Unlock(t, "Write", "W_ret")

\* ---------------------------------------------------------------- Close
CloseCall(t) == Call(t, << >>, "C_lock")

CloseLock(t) == Lock(t, "C_lock", "C_close") /\ UNCHANGED lockOrder

\* return w.close()
CloseBody(t) ==
    /\ pc[t] = "C_close"
    /\ \E o \in CloseOutcomes :
         LET r == close(World(t), o)
         IN /\ r.w.faults <= MaxFaults
            /\ Commit(t, r.w)
            /\ ret' = [ret EXCEPT ![t] = [n |-> 0, err |-> r.err]]
    /\ pc' = [pc EXCEPT ![t] = "C_ret"]
    /\ UNCHANGED <<Filename, mu, arg, wh, pre, last, nops, lockOrder,
                   initContent>>

CloseReturn(t) == Unlock(t, "Close", "C_ret")

\* --------------------------------------------------------------- Rotate
RotateCall(t) == Call(t, << >>, "R_lock")

RotateLock(t) == Lock(t, "R_lock", "R_close") /\ UNCHANGED lockOrder

\* if err := w.close(); err != nil { return errors.Wrap(...) }
RotateClose(t) ==
    /\ pc[t] = "R_close"
    /\ \E o \in CloseOutcomes :
         LET r == rotateClose(World(t), o)
         IN /\ r.w.faults <= MaxFaults
            /\ Commit(t, r.w)
            /\ ret' = [ret EXCEPT ![t] = [n |-> 0, err |-> r.err]]
            /\ pc' = [pc EXCEPT ![t] = IF r.err # nil THEN "R_ret"
                                       ELSE "R_open"]
    /\ UNCHANGED <<Filename, mu, arg, wh, pre, last, nops, lockOrder,
                   initContent>>

\* if err := w.openNew(); err != nil { return errors.Wrap(...) }; return nil
RotateOpen(t) ==
    /\ pc[t] = "R_open"
    /\ \E o \in OpenOutcomes :
         LET r == rotateOpen(World(t), o)
         IN /\ r.w.faults <= MaxFaults
            /\ Commit(t, r.w)
            /\ ret' = [ret EXCEPT ![t] = [n |-> 0, err |-> r.err]]
    /\ pc' = [pc EXCEPT ![t] = "R_ret"]
    /\ UNCHANGED <<Filename, mu, arg, wh, pre, last, nops, lockOrder,
                   initContent>>

RotateReturn(t) == Unlock(t, "Rotate", "R_ret")

\* ------------------------------------------------------- initial states
\* The Writer is a zero value but for Filename, one of names.  At the
\* target path there is nothing, or the directory only, or a file left by
\* an earlier run.
InitFor(names) ==
    /\ Filename \in names
    /\ file = 0
    /\ mu = FALSE
    /\ initContent \in OldContents
    /\ \E d \in BOOLEAN, f \in BOOLEAN :
         /\ dirs = IF d THEN Prefixes(dir) ELSE {<< >>}
         /\ files = IF d /\ f THEN (filename :> initContent) ELSE << >>
         /\ (d /\ f) \/ initContent = << >>
    /\ fds = << >>
    /\ pc = [t \in Threads |-> "idle"]
    /\ arg = [t \in Threads |-> << >>]
    /\ wh = [t \in Threads |-> 0]
    /\ ret = [t \in Threads |-> [n |-> 0, err |-> nil]]
    /\ tr = [t \in Threads |-> << >>]
    /\ pre = [t \in Threads |-> NoSnapshot]
    /\ last = NoCall
    /\ faults = 0
    /\ nops = 0
    /\ lockOrder = << >>

\* A Writer with its Filename set.
Init == InitFor({ExplicitPath})

\* A Writer with its Filename set or left empty, and no file yet at the
\* target path.
InitPaths == InitFor(Filenames) /\ files = << >>

Next ==
    \E t \in Threads :
        \/ WriteCall(t)
        \/ WriteLock(t)
        \/ WriteOpen(t)
        \/ WriteFile(t)
        \/ WriteReturn(t)
        \/ CloseCall(t)
        \/ CloseLock(t)
        \/ CloseBody(t)
        \/ CloseReturn(t)
        \/ RotateCall(t)
        \/ RotateLock(t)
        \/ RotateClose(t)
        \/ RotateOpen(t)
        \/ RotateReturn(t)

Spec == Init /\ [][Next]_vars

\* Goroutines that only Write, with the order of their lock acquisitions
\* noted.
NextWrites ==
    \E t \in Threads :
        \/ WriteCall(t)
        \/ WriteLockNoted(t)
        \/ WriteOpen(t)
        \/ WriteFile(t)
        \/ WriteReturn(t)

SpecWrites == Init /\ [][NextWrites]_vars

SpecPaths == InitPaths /\ [][Next]_vars

\* What a goroutine does between taking the lock and returning: every OS
\* call returns, so it goes on.
Body(t) ==
    \/ WriteOpen(t)
    \/ WriteFile(t)
    \/ WriteReturn(t)
    \/ CloseBody(t)
    \/ CloseReturn(t)
    \/ RotateClose(t)
    \/ RotateOpen(t)
    \/ RotateReturn(t)

\* Taking the lock: a fair mutex lets in, sooner or later, a goroutine that
\* finds it free again and again.
Acquire(t) == WriteLock(t) \/ CloseLock(t) \/ RotateLock(t)

FairSpec ==
    /\ Init /\ [][Next]_vars
    /\ \A t \in Threads : WF_vars(Body(t)) /\ SF_vars(Acquire(t))

\* ------------------------------------------------------------ typing
TypeOK ==
    /\ Filename \in Filenames
    /\ file \in 0..Len(fds)
    /\ mu \in BOOLEAN
    /\ faults \in 0..MaxFaults
    /\ nops \in 0..MaxOps
    /\ \A t \in Threads : arg[t] \in Payloads /\ ret[t].n \in 0..Len(arg[t])

\* ------------------------------------------------------------- claims
\* Between taking the lock and releasing it.
InBody(t) == pc[t] \in {"W_open", "W_write", "W_ret", "C_close", "C_ret",
                        "R_close", "R_open", "R_ret"}

Waiting(t) == pc[t] \in {"W_lock", "C_lock", "R_lock"}

OpenFds == {h \in DOMAIN fds : fds[h].open}

ContentIn(fs) == IF filename \in DOMAIN fs THEN fs[filename] ELSE << >>

RECURSIVE Flat(_)
Flat(ss) == IF ss = << >> THEN << >> ELSE Head(ss) \o Flat(Tail(ss))

IsPrefix(a, b) == Len(a) <= Len(b) /\ SubSeq(b, 1, Len(a)) = a

\* C1: Write, Close and Rotate exclude one another: at no time are two
\* goroutines between taking the lock and releasing it, and whoever is
\* there holds the mutex.
C1_MutualExclusion ==
    /\ Cardinality({t \in Threads : InBody(t)}) <= 1
    /\ (\E t \in Threads : InBody(t)) => mu

\* One goroutine is inside an operation while another waits for the lock.
C1_Witness == \E t, u \in Threads : InBody(t) /\ Waiting(u)

\* C2: when goroutines only Write and no OS call fails, every Write
\* returns (len(p), nil), and whenever the lock is free the file holds the
\* content it had at construction followed by the payloads, whole, in the
\* order in which the Writes took the lock.
C2_WritesInLockOrder ==
    faults = 0 =>
      /\ \A t \in Threads :
           pc[t] = "W_ret" => ret[t] = [n |-> Len(arg[t]), err |-> nil]
      /\ ~mu => Content = initContent \o Flat(lockOrder)

\* Two Writes of different non-empty payloads have both returned.
C2_Witness ==
    /\ faults = 0 /\ ~mu /\ nops = 2
    /\ \A t \in Threads : pc[t] = "idle"
    /\ Len(lockOrder) = 2
    /\ lockOrder[1] # << >> /\ lockOrder[2] # << >>
    /\ lockOrder[1] # lockOrder[2]

\* C3: the handles the Writer has opened and not closed are at most one,
\* and that one is the handle in its file field.
C3_AtMostOneOpenHandle ==
    OpenFds = IF file = 0 THEN {} ELSE {file}

\* A second handle has been opened and is the only one open.
C3_Witness == Len(fds) >= 2 /\ file = Len(fds) /\ OpenFds = {file}

AllOk(trace) == \A i \in DOMAIN trace : trace[i].ok

Failed(trace, call) == \E i \in DOMAIN trace : trace[i] = Did(call, FALSE)

\* C4: a Rotate whose OS calls all succeed returns nil and leaves the
\* Writer with an open handle on the resolved path that was opened by this
\* call; the handle that was open before, if any, is closed and is not the
\* new one.
C4_RotateReplacesHandle ==
    \A t \in Threads :
      (pc[t] = "R_ret" /\ AllOk(tr[t])) =>
        /\ ret[t].err = nil
        /\ file \in OpenFds
        /\ file \notin DOMAIN pre[t].fds
        /\ fds[file].path = filename
        /\ pre[t].file # 0 =>
             /\ ~fds[pre[t].file].open
             /\ file # pre[t].file

\* A Rotate that found a handle open has closed it and opened another.
C4_Witness ==
    \E t \in Threads :
      pc[t] = "R_ret" /\ AllOk(tr[t]) /\ pre[t].file # 0 /\ file # 0

\* C5: immediately after a successful Rotate the file at the target path
\* is empty.
C5_RotateStartsEmpty ==
    \A t \in Threads :
      (pc[t] = "R_ret" /\ ret[t].err = nil) => Content = << >>

\* C6: no step of any Write, Close or Rotate, failed or not, removes or
\* changes a byte that is on disk: the content of the file only grows at
\* its end.
C6_NothingLost == [][IsPrefix(Content, Content')]_vars

\* A Rotate has run on a file that holds bytes written by a Write, and
\* they are all there.
C6_Witness ==
    \E t \in Threads :
      /\ pc[t] = "R_ret"
      /\ Content = ContentIn(pre[t].files)
      /\ \E i \in DOMAIN Content : Content[i] >= 1

RotateCloseErr == Wrap(<<"close failed">>, "close old file failed.")

\* C7: a Rotate whose close fails returns the close error wrapped, makes no
\* other OS call, leaves directories, files and handles as the close left
\* them and the Writer without a handle; the Write that runs next finds no
\* handle and starts by looking for the file.
C7_CloseFailureAbortsRotate ==
    \A t \in Threads :
      /\ (pc[t] \in {"R_open", "R_ret"} /\ Failed(tr[t], "close")) =>
           /\ pc[t] = "R_ret"
           /\ ret[t].err = RotateCloseErr
           /\ tr[t] = <<Did("close", FALSE)>>
           /\ file = 0
           /\ DOMAIN fds = DOMAIN pre[t].fds
           /\ dirs = pre[t].dirs
           /\ files = pre[t].files
      /\ (pc[t] \in {"W_write", "W_ret"}
            /\ pre[t].last = [op |-> "Rotate", n |-> 0, err |-> RotateCloseErr]) =>
           /\ pre[t].file = 0
           /\ tr[t] # << >>
           /\ tr[t][1].call = "stat"

\* A Write has run right after a Rotate whose close failed.
C7_Witness ==
    \E t \in Threads :
      /\ pc[t] = "W_ret"
      /\ pre[t].last = [op |-> "Rotate", n |-> 0, err |-> RotateCloseErr]

RotateOpenFailed(err) == err # nil /\ Head(err) = "open new file failed."

\* C8: a Rotate whose directory creation or file creation fails returns
\* the error wrapped and leaves the Writer without a handle, the old handle
\* closed; the Write that runs next finds no handle, starts by looking for
\* the file, and if its OS calls all succeed it returns (len(p), nil) with
\* a handle open.
C8_OpenFailureLeavesNoHandle ==
    \A t \in Threads :
      /\ (pc[t] = "R_ret"
            /\ (Failed(tr[t], "mkdir") \/ Failed(tr[t], "create"))) =>
           /\ RotateOpenFailed(ret[t].err)
           /\ Len(ret[t].err) = 3
           /\ file = 0
           /\ OpenFds = {}
           /\ DOMAIN fds = DOMAIN pre[t].fds
      /\ (pc[t] \in {"W_write", "W_ret"}
            /\ pre[t].last.op = "Rotate"
            /\ RotateOpenFailed(pre[t].last.err)) =>
           /\ pre[t].file = 0
           /\ tr[t] # << >>
           /\ tr[t][1].call = "stat"
           /\ (pc[t] = "W_ret" /\ AllOk(tr[t])) =>
                /\ ret[t] = [n |-> Len(arg[t]), err |-> nil]
                /\ file \in OpenFds

\* A Write has succeeded right after a Rotate that had closed a handle and
\* failed to open a new one.
C8_Witness ==
    \E t \in Threads :
      /\ pc[t] = "W_ret"
      /\ pre[t].last.op = "Rotate"
      /\ RotateOpenFailed(pre[t].last.err)
      /\ Len(pre[t].fds) >= 1
      /\ AllOk(tr[t])
      /\ arg[t] # << >>

\* C9: when Close is about to return the Writer has no handle and none is
\* open, whether the OS close failed or not; whatever runs right after a
\* Close finds no handle; and a Close that finds no handle returns nil,
\* makes no OS call and changes nothing.
C9_CloseIdempotent ==
    \A t \in Threads :
      /\ pc[t] = "C_ret" =>
           /\ file = 0
           /\ OpenFds = {}
           /\ pre[t].file = 0 =>
                /\ ret[t].err = nil
                /\ tr[t] = << >>
                /\ fds = pre[t].fds
                /\ dirs = pre[t].dirs
                /\ files = pre[t].files
                /\ faults = pre[t].faults
      /\ (InBody(t) /\ pre[t].last.op = "Close") => pre[t].file = 0

\* A Close has run right after a Close whose OS close failed.
C9_Witness ==
    \E t \in Threads :
      /\ pc[t] = "C_ret"
      /\ pre[t].last.op = "Close"
      /\ pre[t].last.err # nil
      /\ ret[t].err = nil

IsOpen(e) == e.call \in {"create", "append"}

Opened(trace) == {i \in DOMAIN trace : IsOpen(trace[i]) /\ trace[i].ok}

\* C10: a Write that finds no handle and gets one has made exactly one
\* open that succeeded, before its OS write, and from then on the file
\* holds what it held when the Write began followed by the bytes written
\* so far; a Write that finds a handle writes to that handle and makes no
\* stat, mkdir or open.
C10_WriteOpensOnceOrReuses ==
    \A t \in Threads :
      (pc[t] \in {"W_write", "W_ret"} /\ wh[t] # 0) =>
        /\ Content = ContentIn(pre[t].files) \o SubSeq(arg[t], 1, ret[t].n)
        /\ \A i \in DOMAIN tr[t] : tr[t][i].call = "write" => i = Len(tr[t])
        /\ wh[t] = file
        /\ pre[t].file = 0 =>
             /\ Cardinality(Opened(tr[t])) = 1
             /\ Len(fds) = Len(pre[t].fds) + 1
             /\ file = Len(fds)
        /\ pre[t].file # 0 =>
             /\ file = pre[t].file
             /\ fds = pre[t].fds
             /\ \A i \in DOMAIN tr[t] : tr[t][i].call = "write"

\* A Write that found no handle has opened for append a file that held
\* content and has written after it.
C10_Witness ==
    \E t \in Threads :
      /\ pc[t] = "W_ret"
      /\ pre[t].file = 0
      /\ ContentIn(pre[t].files) # << >>
      /\ \E i \in DOMAIN tr[t] : tr[t][i] = Did("append", TRUE)
      /\ ret[t].n >= 1

Calls(trace, call) == {i \in DOMAIN trace : trace[i].call = call}

OpenNewErr(err) ==
    /\ Len(err) = 2
    /\ Head(err) \in {"can't make directories for new logfile",
                      "can't open new logfile"}

\* C11: in a Write whose append-open of the existing file fails, the next
\* OS call is the mkdir of openNew.  If openNew fails, Write returns 0 and
\* openNew's error, has written nothing and the Writer has no handle; if
\* it succeeds, Write goes on to the OS write on the handle just opened
\* and returns an error only if that write fails.
C11_AppendFailureFallsBack ==
    \A t \in Threads :
      (pc[t] \in {"W_write", "W_ret"} /\ Failed(tr[t], "append")) =>
        /\ Len(tr[t]) >= 3
        /\ tr[t][2] = Did("append", FALSE)
        /\ tr[t][3].call = "mkdir"
        /\ (Failed(tr[t], "mkdir") \/ Failed(tr[t], "create")) =>
             /\ pc[t] = "W_ret"
             /\ ret[t].n = 0
             /\ OpenNewErr(ret[t].err)
             /\ Calls(tr[t], "write") = {}
             /\ files = pre[t].files
             /\ file = 0
             /\ OpenFds = {}
        /\ ~(Failed(tr[t], "mkdir") \/ Failed(tr[t], "create")) =>
             /\ tr[t][4] = Did("create", TRUE)
             /\ wh[t] = file
             /\ file \in OpenFds
             /\ pc[t] = "W_ret" =>
                  /\ tr[t][5].call = "write"
                  /\ (ret[t].err = nil) = tr[t][5].ok

\* A Write has written through the handle openNew gave it after the
\* append-open failed.
C11_Witness ==
    \E t \in Threads :
      /\ pc[t] = "W_ret"
      /\ Failed(tr[t], "append")
      /\ ret[t] = [n |-> Len(arg[t]), err |-> nil]
      /\ arg[t] # << >>

\* The causes the claim allows for an error of Write.
C12_Causes(t) ==
    \/ Failed(tr[t], "mkdir")
    \/ Failed(tr[t], "create")
    \/ Failed(tr[t], "write")

\* What the claim says of an error that does not come from the OS write.
C12_OpenFailed(t) ==
    ~Failed(tr[t], "write") =>
      /\ ret[t].n = 0
      /\ Calls(tr[t], "write") = {}
      /\ file = 0

\* C12 as claimed: a Write returns an error only if the directory could not
\* be made, the file could not be created, or the OS write failed.
C12_ThreeCauses ==
    \A t \in Threads :
      (pc[t] = "W_ret" /\ ret[t].err # nil) =>
        C12_Causes(t) /\ C12_OpenFailed(t)

\* C12, amended: a Write returns an error only if the stat of the target
\* failed with an error other than not-exist, the directory could not be
\* made, the file could not be created, or the OS write failed; unless the
\* OS write failed, Write returns 0, has made no OS write and the Writer
\* has no handle.  A failed append-open alone is no cause.
C12_FourCauses ==
    \A t \in Threads :
      /\ (pc[t] = "W_ret" /\ ret[t].err # nil) =>
           /\ Failed(tr[t], "stat") \/ C12_Causes(t)
           /\ C12_OpenFailed(t)
      /\ (pc[t] = "W_ret" /\ (Failed(tr[t], "stat") \/ C12_Causes(t))) =>
           ret[t].err # nil

\* A Write has failed because the stat of the target failed.
C12_Witness ==
    \E t \in Threads :
      /\ pc[t] = "W_ret"
      /\ tr[t] = <<Did("stat", FALSE)>>
      /\ ret[t] = [n |-> 0,
                   err |-> Wrap(<<"stat failed">>, "error getting log file info")]

\* C13: a Write that got to a handle has made exactly one file.Write when
\* it returns, as its last OS call, and returns what that call gave: the
\* number of bytes it put in the file, with the write's own error,
\* unwrapped, if it failed, and len(p) with nil if it did not.  No OS call
\* is made twice in one Write, and a Write whose open failed makes no
\* write.
C13_OneWriteNoRetry ==
    \A t \in Threads :
      pc[t] = "W_ret" =>
        /\ \A c \in {"stat", "mkdir", "create", "append", "write"} :
             Cardinality(Calls(tr[t], c)) <= 1
        /\ wh[t] = 0 => Calls(tr[t], "write") = {}
        /\ wh[t] # 0 =>
             /\ Calls(tr[t], "write") = {Len(tr[t])}
             /\ Content = ContentIn(pre[t].files)
                             \o SubSeq(arg[t], 1, ret[t].n)
             /\ IF tr[t][Len(tr[t])].ok
                THEN ret[t] = [n |-> Len(arg[t]), err |-> nil]
                ELSE ret[t].err = <<"write failed">>

\* A Write has returned a short count together with the write's error.
C13_Witness ==
    \E t \in Threads :
      /\ pc[t] = "W_ret"
      /\ ret[t] = [n |-> 1, err |-> <<"write failed">>]
      /\ Len(arg[t]) = 2

\* C14: a Write that finds the directory of the target missing, and whose
\* OS calls the OS does not make fail, looks for the file, makes the
\* directory tree, creates the file and writes, in this order, and returns
\* (len(p), nil); the directory and all above it then exist and the file
\* holds exactly p.
C14_FirstWriteMakesDirectory ==
    \A t \in Threads :
      (pc[t] = "W_ret" /\ dir \notin pre[t].dirs
        /\ faults = pre[t].faults) =>
        /\ tr[t] = <<Did("stat", TRUE), Did("mkdir", TRUE),
                     Did("create", TRUE), Did("write", TRUE)>>
        /\ ret[t] = [n |-> Len(arg[t]), err |-> nil]
        /\ Prefixes(dir) \subseteq dirs
        /\ filename \in DOMAIN files
        /\ files[filename] = arg[t]

\* Such a Write has written a payload of two bytes.
C14_Witness ==
    \E t \in Threads :
      /\ pc[t] = "W_ret"
      /\ dir \notin pre[t].dirs
      /\ faults = pre[t].faults
      /\ Len(arg[t]) = 2
      /\ Content = arg[t]

\* The steps of the handle between NoHandle (file = 0) and HandleOpen.
C15_Step ==
    /\ (file = 0 /\ file' # 0) =>
         \E t \in Threads :
           \/ pc[t] = "W_open" /\ pc'[t] = "W_write"
           \/ pc[t] = "R_open" /\ pc'[t] = "R_ret" /\ ret'[t].err = nil
    /\ (file # 0 /\ file' = 0) =>
         \E t \in Threads :
           pc[t] \in {"C_close", "R_close"} /\ pc'[t] # pc[t]
    /\ (file # 0 /\ file' # 0) => file' = file
    /\ (file # 0 /\ \E t \in Threads : pc[t] \in {"W_open", "W_write", "W_ret"})
         => file' = file
    /\ \A t \in Threads :
         /\ (pc[t] = "W_open" /\ pc'[t] = "W_ret") => file' = 0
         /\ (pc[t] = "R_open" /\ pc'[t] = "R_ret" /\ ret'[t].err # nil)
              => file' = 0
         /\ (pc[t] \in {"C_close", "R_close"} /\ pc'[t] # pc[t]) => file' = 0

\* Nothing the Writer has been through keeps an operation from being
\* called or from taking a free lock, a held lock has a holder that can go
\* on, and a Write that runs right after a Close opens the file again.
C15_NoTerminalState ==
    \A t \in Threads :
      /\ (pc[t] = "idle" /\ nops < MaxOps) =>
           ENABLED WriteCall(t) /\ ENABLED CloseCall(t)
             /\ ENABLED RotateCall(t)
      /\ (Waiting(t) /\ ~mu) =>
           ENABLED (WriteLock(t) \/ CloseLock(t) \/ RotateLock(t))
      /\ mu => \E u \in Threads : InBody(u)
      /\ (pc[t] \in {"W_write", "W_ret"} /\ pre[t].last.op = "Close") =>
           /\ pre[t].file = 0
           /\ tr[t] # << >>
           /\ tr[t][1].call = "stat"
           /\ wh[t] # 0 =>
                /\ file = wh[t]
                /\ file \in OpenFds
                /\ file \notin DOMAIN pre[t].fds

\* C15: the Writer starts without a handle; it gets one only by a Write or
\* a Rotate whose open succeeds, loses it only by a Close or by the close
\* step of a Rotate, never exchanges it in one step, keeps it through a
\* Write that found it, and has none after an open that failed; and there
\* is no terminal state.
C15_HandleStateMachine ==
    /\ file = 0
    /\ [][C15_Step]_vars
    /\ []C15_NoTerminalState

\* A Write that ran right after a Close has opened the file again.
C15_Witness ==
    \E t \in Threads :
      /\ pc[t] = "W_ret"
      /\ pre[t].last.op = "Close"
      /\ Len(pre[t].fds) >= 1
      /\ file \in OpenFds
      /\ file \notin DOMAIN pre[t].fds

\* The path the Writer is to use, and its directory, spelled out.
C16_Resolved ==
    IF Filename = << >> THEN << <<"tmp">>, <<"myapp", "-zap.log">> >>
    ELSE Filename

C16_ResolvedDir ==
    IF Filename = << >> THEN << <<"tmp">> >>
    ELSE << <<"var">>, <<"log">>, <<"app">> >>

InWrite(t) == pc[t] \in {"W_open", "W_write", "W_ret"}

InRotate(t) == pc[t] \in {"R_close", "R_open", "R_ret"}

\* C17 as claimed: whenever a call looks for the file or opens it, it has
\* ensured the directory before.
C17_MkdirBeforeAll ==
    \A t \in Threads :
      \A i \in DOMAIN tr[t] :
        tr[t][i].call \in {"stat", "append", "create"} =>
          \E j \in 1..(i - 1) : tr[t][j].call = "mkdir"

\* C17, amended: a Write that opens starts by looking for the file; it
\* opens an existing file for append right after that, without ensuring
\* the directory; the directory is ensured only on the way to creating the
\* file, right after the file was found missing or the append-open failed,
\* and the creation comes right after it.  Rotate never looks for the
\* file: it ensures the directory and then creates or opens the file.
C17_MkdirOnlyBeforeCreate ==
    \A t \in Threads :
      /\ (InWrite(t) /\ tr[t] # << >> /\ pre[t].file = 0) =>
           tr[t][1].call = "stat"
      /\ InRotate(t) =>
           Calls(tr[t], "stat") = {} /\ Calls(tr[t], "append") = {}
      /\ Failed(tr[t], "append") \/ Calls(tr[t], "append") = {}
           \/ Calls(tr[t], "mkdir") = {}
      /\ \A i \in DOMAIN tr[t] :
           /\ tr[t][i].call = "append" =>
                /\ i = 2
                /\ tr[t][1] = Did("stat", TRUE)
                /\ filename \in DOMAIN pre[t].files
           /\ tr[t][i].call = "create" =>
                i > 1 /\ tr[t][i - 1] = Did("mkdir", TRUE)
           /\ (tr[t][i].call = "mkdir" /\ InWrite(t)) =>
                /\ i > 1
                /\ \/ tr[t][i - 1] = Did("append", FALSE)
                   \/ /\ tr[t][i - 1] = Did("stat", TRUE)
                      /\ filename \notin DOMAIN pre[t].files
           /\ (tr[t][i].call = "mkdir" /\ InRotate(t)) =>
                i = 1 \/ tr[t][i - 1].call = "close"

\* A Write has opened an existing file and written to it without any
\* mkdir.
C17_Witness ==
    \E t \in Threads :
      /\ pc[t] = "W_ret"
      /\ tr[t] = <<Did("stat", TRUE), Did("append", TRUE), Did("write", TRUE)>>
      /\ arg[t] # << >>

Returning(t) == pc[t] \in {"W_ret", "C_ret", "R_ret"}

\* C18: every return of Write, Close and Rotate, with or without an error,
\* leaves the mutex free, and every call that was made returns.
C18_EveryCallReturns ==
    /\ [][\A t \in Threads : (Returning(t) /\ pc'[t] = "idle") => ~mu']_vars
    /\ \A t \in Threads : (pc[t] # "idle") ~> (pc[t] = "idle")

\* A call is about to return an error while another waits for the lock.
C18_Witness ==
    \E t, u \in Threads :
      Returning(t) /\ ret[t].err # nil /\ Waiting(u)

\* C19: the handle a Write is writing to, or has written to, is a handle
\* that is open, and the handle a Close or a Rotate is about to close is
\* open; no close of the call in progress has failed for being a second
\* close, and no write for want of an open handle.
C19_NoUseAfterClose ==
    \A t \in Threads :
      /\ pc[t] = "W_write" => wh[t] # 0 /\ wh[t] \in OpenFds
      /\ (pc[t] = "W_ret" /\ Calls(tr[t], "write") # {}) =>
           wh[t] # 0 /\ wh[t] \in OpenFds
      /\ (pc[t] \in {"C_close", "R_close"} /\ file # 0) => file \in OpenFds
      /\ (InBody(t) /\ faults = pre[t].faults) => AllOk(tr[t])

\* A Write is writing to the handle it opened right after a Close whose OS
\* close failed.
C19_Witness ==
    \E t \in Threads :
      /\ pc[t] = "W_write"
      /\ pre[t].last.op = "Close"
      /\ pre[t].last.err # nil
      /\ wh[t] \in OpenFds
      /\ ret[t].n = 1

WriteFailed(call) == call.op = "Write" /\ call.err = <<"write failed">>

\* C20: a Write whose OS write failed leaves the Writer with the handle it
\* wrote to, still open; the Write that runs next finds that handle, writes
\* to it, and makes no stat, mkdir or open.
C20_WriteFailureKeepsHandle ==
    \A t \in Threads :
      /\ (pc[t] = "W_ret" /\ Failed(tr[t], "write")) =>
           /\ file = wh[t]
           /\ file \in OpenFds
           /\ pre[t].file # 0 => file = pre[t].file /\ fds = pre[t].fds
      /\ (InBody(t) /\ WriteFailed(pre[t].last)) =>
           pre[t].file # 0 /\ pre[t].file \in DOMAIN pre[t].fds
             /\ pre[t].fds[pre[t].file].open
      /\ (pc[t] \in {"W_write", "W_ret"} /\ WriteFailed(pre[t].last)) =>
           /\ wh[t] = pre[t].file
           /\ file = pre[t].file
           /\ fds = pre[t].fds
           /\ dirs = pre[t].dirs
           /\ \A i \in DOMAIN tr[t] : tr[t][i].call = "write"

\* A Write has written through the handle that the Write before it failed
\* to write to.
C20_Witness ==
    \E t \in Threads :
      /\ pc[t] = "W_ret"
      /\ WriteFailed(pre[t].last)
      /\ ret[t] = [n |-> Len(arg[t]), err |-> nil]
      /\ arg[t] # << >>

====
